---- MODULE Spec2Model ----
(***************************************************************************)
(* Model of customTreeWidgetUI.py: CustomTreeWidget.__init__ builds a      *)
(* QTreeWidget from a dictionary  folder -> list of version groups,        *)
(* CustomTreeItem.__init__ builds one row from a record, and               *)
(* UI.show_data_useage prints the fields of the selected rows.             *)
(*                                                                         *)
(* The toolkit is modelled by what the program uses of it:                 *)
(*   - QTreeWidgetItem(parent) appends the new item to the children of     *)
(*     parent (to the top-level items when parent is the tree widget);     *)
(*   - QLabel() has the empty text, setText(s) stores s, text() reads it;  *)
(*   - setItemWidget(item, column, widget) binds widget to the column;     *)
(*   - selectedItems() is a list of distinct items of the tree.            *)
(* A dictionary is the sequence of its (key, value) pairs in iteration     *)
(* order.  An item is identified by its position in creation order.        *)
(***************************************************************************)
EXTENDS Integers, Sequences, FiniteSets, TLC

\* Bounds of the generated inputs and of the selection list.
MaxFolders == 2
MaxVersions == 3
MaxSel == 2

VARIABLES
    data,           \* CustomTreeWidget._data, the dictionary given to the builder
    phase,          \* "building" | "idle" | "reporting" | "error"
    key_index,      \* position of the outer loop  for key, value in data.items()
    pending,        \* what is left of reversed(value), each group with its position
    _header,        \* the loop's _header: the tree widget or an item
    topLevelItems,  \* the tree widget's top-level items, in display order
    items,          \* the items created so far, in creation order
    origin,         \* origin[i] = <<key index, group index>> item i was built from
    selectedItems,  \* what treeWidget.selectedItems() returns
    stdout,         \* the lines printed by the handler that is running
    error           \* the exception that ended the program, or NoError

vars == <<data, phase, key_index, pending, _header, topLevelItems, items,
          origin, selectedItems, stdout, error>>

----------------------------------------------------------------------------
\* The dictionary keys of a record, in the order CustomTreeItem reads them.
_HEADERS == <<"Sequence", "Shot", "Version", "Location">>

Fields == {_HEADERS[c] : c \in 1..Len(_HEADERS)}

\* The module's example dictionary.
_data ==
    << [key |-> "/folderOne", value |-> <<
          << [Sequence |-> "zzz999", Shot |-> "zzz_1234", Version |-> "01", Location |-> "/file/path"] >> >>],
       [key |-> "/folderTwo", value |-> <<
          << [Sequence |-> "zzz999", Shot |-> "zzz999_000", Version |-> "01", Location |-> "/file/path"] >>,
          << [Sequence |-> "zzz999", Shot |-> "zzz999_000", Version |-> "02", Location |-> "/file/path"] >> >>],
       [key |-> "/folderThree", value |-> <<
          << [Sequence |-> "abc111", Shot |-> "abc111_5678", Version |-> "01", Location |-> "/file/path"] >>,
          << [Sequence |-> "abc111", Shot |-> "abc111_5678", Version |-> "02", Location |-> "/file/path"] >>,
          << [Sequence |-> "abc111", Shot |-> "abc111_5678", Version |-> "03", Location |-> "/file/path"] >>,
          << [Sequence |-> "abc111", Shot |-> "abc111_5678", Version |-> "05", Location |-> "/file/path"] >> >>] >>

----------------------------------------------------------------------------
\* Generated inputs: up to MaxFolders folders of up to MaxVersions groups.

\* The record of group j of folder k; every field value is distinct.
GenRecord(k, j) ==
    [Sequence |-> "seq" \o ToString(k),
     Shot     |-> "seq" \o ToString(k) \o "_" \o ToString(1000 * k),
     Version  |-> "0" \o ToString(j),
     Location |-> "/file/path/" \o ToString(k)]

\* A record that is never the first of its group.
Decoy ==
    [Sequence |-> "decoy", Shot |-> "decoy_0000", Version |-> "99",
     Location |-> "/decoy/path"]

\* name without the key f (a malformed record).
Without(name, f) == [g \in (DOMAIN name) \ {f} |-> name[g]]

NoDefect == <<0, 0, "">>

\* Group j of folder k: one record, followed by a second one when j is even.
GenGroup(k, j, defect) ==
    << IF defect[1] = k /\ defect[2] = j
         THEN Without(GenRecord(k, j), defect[3])
         ELSE GenRecord(k, j) >>
    \o (IF j % 2 = 0 THEN << Decoy >> ELSE << >>)

GenData(shape, defect) ==
    [k \in 1..Len(shape) |->
        [key   |-> "/folder" \o ToString(k),
         value |-> [j \in 1..shape[k] |-> GenGroup(k, j, defect)]]]

Shapes == UNION {[1..n -> 0..MaxVersions] : n \in 0..MaxFolders}

\* No malformed record, or the one of group j of folder k lacks the key f.
Defects(shape) ==
    {NoDefect} \cup
    {d \in (1..Len(shape)) \X (1..MaxVersions) \X Fields : d[2] <= shape[d[1]]}

\* The dictionaries the builder is run on: the example and the generated ones.
Inputs ==
    {_data} \cup
    UNION {{GenData(shape, d) : d \in Defects(shape)} : shape \in Shapes}

----------------------------------------------------------------------------
\* The toolkit and the language, as far as the program uses them.

\* The tree widget itself, as a parent or as the loop's _header.
Tree == 0

\* isinstance(x, CustomTreeWidget)
IsTreeWidget(x) == x = Tree

\* An attribute that was not assigned yet.
NoWidget == [exists |-> FALSE, text |-> ""]

\* QtWidgets.QLabel()
QLabel == [exists |-> TRUE, text |-> ""]

\* widget.setText(s)
setText(widget, s) == [widget EXCEPT !.text = s]

\* widget.text()
text(widget) == widget.text

NoError == [type |-> "None", key |-> ""]

KeyError(k) == [type |-> "KeyError", key |-> k]

\* dict.get(key, ''): a missing key reads as the empty string.
getitemDefault(name, key) ==
    IF key \in DOMAIN name
      THEN [raised |-> NoError, value |-> name[key]]
      ELSE [raised |-> NoError, value |-> ""]

\* name[key]: the value, or KeyError(key) when name has no such key.
getitem(name, key) ==
    IF key \in DOMAIN name
      THEN [raised |-> NoError, value |-> name[key]]
      ELSE [raised |-> KeyError(key), value |-> ""]

\* reversed(value) that forgets to reverse.
reversedSame(value) == value

\* reversed(value)
reversed(value) == [i \in 1..Len(value) |-> value[Len(value) + 1 - i]]

\* enumerate(value, 1): every group with its position in value.
enumerate(value) == [j \in 1..Len(value) |-> [index |-> j, val |-> value[j]]]

\* val[-1]: the last element of the group.
firstOfLast(val) == val[Len(val)]

\* val[0]
firstOf(val) == val[1]

----------------------------------------------------------------------------
\* CustomTreeItem

\* The item right after super().__init__(parent).
NewItem(parent) ==
    [parent           |-> parent,
     children         |-> << >>,
     _sequence_widget |-> NoWidget,
     _shot_widget     |-> NoWidget,
     _version_widget  |-> NoWidget,
     _location_widget |-> NoWidget,
     itemWidget       |-> [c \in 0..3 |-> ""]]

\* One column block of __init__:
\*     self.<attr> = QLabel(); self.<attr>.setText(name[key]);
\*     top_item.setItemWidget(self, column, self.<attr>)
\* st = [item, raised]; nothing runs once an exception was raised.
SetColumn(st, name, column, attr, key) ==
    LET got == getitem(name, key) IN
    IF st.raised # NoError THEN st
    ELSE IF got.raised # NoError
      THEN [item   |-> [st.item EXCEPT ![attr] = QLabel],
            raised |-> got.raised]
      ELSE [item   |-> [st.item EXCEPT ![attr] = setText(QLabel, got.value),
                                       !.itemWidget[column] = attr],
            raised |-> NoError]

\* CustomTreeItem.__init__(name, top_item, parent): the item and what it raised.
CustomTreeItem(name, parent) ==
    LET s0 == [item |-> NewItem(parent), raised |-> NoError]
        s1 == SetColumn(s0, name, 0, "_sequence_widget", "Sequence")
        s2 == SetColumn(s1, name, 1, "_shot_widget", "Shot")
        s3 == SetColumn(s2, name, 2, "_version_widget", "Version")
        s4 == SetColumn(s3, name, 3, "_location_widget", "Location")
    IN  s4

\* The properties of CustomTreeItem.
sequence(item) == item._sequence_widget

\* A shot property that returns the version label.
shotSwapped(item) == item._version_widget

shot(item) == item._shot_widget

version(item) == item._version_widget

location(item) == item._location_widget

----------------------------------------------------------------------------
\* CustomTreeWidget.__init__

\* A builder that makes every new item the parent of the next one.
NextHeaderChain(header, item) == item

\* if isinstance(_header, CustomTreeWidget): _header = _item
NextHeader(header, item) == IF IsTreeWidget(header) THEN item ELSE header

Init ==
    /\ data \in Inputs
    /\ phase = "building"
    /\ key_index = 0
    /\ pending = << >>
    /\ _header = Tree
    /\ topLevelItems = << >>
    /\ items = << >>
    /\ origin = << >>
    /\ selectedItems = << >>
    /\ stdout = << >>
    /\ error = NoError

\* A builder that first creates an empty node for the folder itself.
ForKeyFolderNode ==
    /\ phase = "building"
    /\ pending = << >>
    /\ key_index < Len(data)
    /\ key_index' = key_index + 1
    /\ _header' = Len(items) + 1
    /\ pending' = reversed(enumerate(data[key_index + 1].value))
    /\ items' = Append(items, NewItem(Tree))
    /\ origin' = Append(origin, <<key_index + 1, 0>>)
    /\ topLevelItems' = Append(topLevelItems, Len(items) + 1)
    /\ UNCHANGED <<data, phase, selectedItems, stdout, error>>

\* for key, value in self.data.items(): _header = self; enter the inner loop.
ForKey ==
    /\ phase = "building"
    /\ pending = << >>
    /\ key_index < Len(data)
    /\ key_index' = key_index + 1
    /\ _header' = Tree
    /\ pending' = reversed(enumerate(data[key_index + 1].value))
    /\ UNCHANGED <<data, phase, topLevelItems, items, origin, selectedItems,
                   stdout, error>>

\* for val in reversed(value): one iteration of the inner loop.
ForVal ==
    /\ phase = "building"
    /\ pending # << >>
    /\ LET val   == Head(pending).val
           id    == Len(items) + 1
           built == CustomTreeItem(firstOf(val), _header)
           attached ==
               IF IsTreeWidget(_header) THEN items
               ELSE [items EXCEPT ![_header].children = Append(@, id)]
       IN  /\ items' = Append(attached, built.item)
           /\ topLevelItems' = IF IsTreeWidget(_header)
                                 THEN Append(topLevelItems, id)
                                 ELSE topLevelItems
           /\ origin' = Append(origin, <<key_index, Head(pending).index>>)
           /\ IF built.raised # NoError
                THEN /\ phase' = "error"
                     /\ error' = built.raised
                     /\ UNCHANGED <<_header, pending>>
                ELSE /\ _header' = NextHeader(_header, id)
                     /\ pending' = Tail(pending)
                     /\ UNCHANGED <<phase, error>>
    /\ UNCHANGED <<data, key_index, selectedItems, stdout>>

\* Both loops are over: the window is shown and the event loop runs.
BuildDone ==
    /\ phase = "building"
    /\ pending = << >>
    /\ key_index = Len(data)
    /\ phase' = "idle"
    /\ UNCHANGED <<data, key_index, pending, _header, topLevelItems, items,
                   origin, selectedItems, stdout, error>>

----------------------------------------------------------------------------
\* The user's selection and UI.show_data_useage

\* The user adds row i to the selection.  The handler loops over whatever list
\* selectedItems() returns; a view in single-selection mode keeps it at one item.
Select(i) ==
    /\ phase = "idle"
    /\ Len(selectedItems) < MaxSel
    /\ \A n \in 1..Len(selectedItems) : selectedItems[n] # i
    /\ selectedItems' = Append(selectedItems, i)
    /\ UNCHANGED <<data, phase, key_index, pending, _header, topLevelItems,
                   items, origin, stdout, error>>

\* The user takes the n-th selected row out of the selection.
Deselect(n) ==
    /\ phase = "idle"
    /\ selectedItems' = [m \in 1..(Len(selectedItems) - 1) |->
                            IF m < n THEN selectedItems[m] ELSE selectedItems[m + 1]]
    /\ UNCHANGED <<data, phase, key_index, pending, _header, topLevelItems,
                   items, origin, stdout, error>>

\* The four prints with Shot and Version exchanged.
ItemLinesSwapped(item) ==
    << ">> Sequence: " \o text(sequence(item)),
       ">> Version: "  \o text(version(item)),
       ">> Shot: "     \o text(shot(item)),
       ">> Location: " \o text(location(item)) >>

\* The four prints of the loop body for one selected item.
ItemLines(item) ==
    << ">> Sequence: " \o text(sequence(item)),
       ">> Shot: "     \o text(shot(item)),
       ">> Version: "  \o text(version(item)),
       ">> Location: " \o text(location(item)) >>

RECURSIVE SelectedLines(_)
\* for selected in _selected_items: the prints of every iteration, in order.
SelectedLines(sel) ==
    IF sel = << >> THEN << >>
    ELSE ItemLines(items[Head(sel)]) \o SelectedLines(Tail(sel))

\* A handler whose test of the selection is inverted.
PrintedInverted(sel) ==
    IF sel # << >> THEN << "Please select a row" >> ELSE SelectedLines(sel)

\* Everything show_data_useage prints for the selection sel.
Printed(sel) ==
    IF sel = << >> THEN << "Please select a row" >> ELSE SelectedLines(sel)

\* A handler that clears the selection once it has printed it.
ShowDataUseageClears ==
    /\ phase = "idle"
    /\ stdout' = Printed(selectedItems)
    /\ selectedItems' = << >>
    /\ phase' = "reporting"
    /\ UNCHANGED <<data, key_index, pending, _header, topLevelItems, items,
                   origin, error>>

\* The button is clicked: show_data_useage runs.
ShowDataUseage ==
    /\ phase = "idle"
    /\ stdout' = Printed(selectedItems)
    /\ phase' = "reporting"
    /\ UNCHANGED <<data, key_index, pending, _header, topLevelItems, items,
                   origin, selectedItems, error>>

\* The handler returns to the event loop.
ReturnToIdle ==
    /\ phase = "reporting"
    /\ phase' = "idle"
    /\ stdout' = << >>
    /\ UNCHANGED <<data, key_index, pending, _header, topLevelItems, items,
                   origin, selectedItems, error>>

Next ==
    \/ ForKey
    \/ ForVal
    \/ BuildDone
    \/ \E i \in 1..Len(items) : Select(i)
    \/ \E n \in 1..Len(selectedItems) : Deselect(n)
    \/ ShowDataUseage
    \/ ReturnToIdle

Spec == Init /\ [][Next]_vars

\* The handler runs to its end once it has started.
FairSpec == Spec /\ WF_vars(ReturnToIdle)

----------------------------------------------------------------------------
\* Vocabulary of the properties.

\* The tree is built and the event loop runs.
Built == phase \in {"idle", "reporting"}

Value(k) == data[k].value

\* The record item i was built from.
SourceRecord(i) == data[origin[i][1]].value[origin[i][2]][1]

\* What the four properties of an item give back.
ReadBack(item) ==
    [Sequence |-> text(sequence(item)),
     Shot     |-> text(shot(item)),
     Version  |-> text(version(item)),
     Location |-> text(location(item))]

\* The records shown by the items ids, in order.
RecordsOf(ids) == [n \in 1..Len(ids) |-> ReadBack(items[ids[n]])]

\* [gn, ..., g1, g0] for folder k, each group by its record.
ReversedFirsts(k) ==
    [n \in 1..Len(Value(k)) |-> Value(k)[Len(Value(k)) + 1 - n][1]]

\* The top-level items built from folder k.
FolderNodes(k) ==
    {topLevelItems[n] : n \in {m \in 1..Len(topLevelItems) :
                                  origin[topLevelItems[m]][1] = k}}

\* The items built from folder k.
ItemsOf(k) == {i \in 1..Len(items) : origin[i][1] = k}

\* The constructor of item i returned.
Completed(i) == ~(phase = "error" /\ i = Len(items))

\* The first key, in the order of __init__, that name lacks.
FirstMissing(name) ==
    _HEADERS[CHOOSE c \in 1..Len(_HEADERS) :
                /\ _HEADERS[c] \notin DOMAIN name
                /\ \A d \in 1..(c - 1) : _HEADERS[d] \in DOMAIN name]

RECURSIVE TotalGroups(_)
\* The number of version groups in the first k folders.
TotalGroups(k) == IF k = 0 THEN 0 ELSE Len(Value(k)) + TotalGroups(k - 1)

\* The handler starts in this step.
Invoked == phase = "idle" /\ phase' = "reporting"

TreeUnchanged == items' = items /\ topLevelItems' = topLevelItems

----------------------------------------------------------------------------
\* C1 (as stated): once the tree is built, the children under the node of a
\* folder with groups [g0, ..., gn] are exactly [gn, ..., g0].
C1_ChildrenAreFullReversal ==
    Built =>
      \A k \in 1..Len(data) :
         Value(k) # << >> =>
           /\ FolderNodes(k) # {}
           /\ \A t \in FolderNodes(k) :
                 RecordsOf(items[t].children) = ReversedFirsts(k)

\* C1 (amended): once the tree is built, the top-level node of a folder with
\* groups [g0, ..., gn] followed by that node's children, in display order, is
\* exactly [gn, ..., g0]: gn is the top-level node and [gn-1, ..., g0] are its
\* children.
C1_NodeThenChildrenAreReversal ==
    Built =>
      \A k \in 1..Len(data) :
         Value(k) # << >> =>
           /\ Cardinality(FolderNodes(k)) = 1
           /\ \A t \in FolderNodes(k) :
                 << ReadBack(items[t]) >> \o RecordsOf(items[t].children)
                    = ReversedFirsts(k)

C1_Witness ==
    /\ Built
    /\ \E k \in 1..Len(data) :
          /\ Len(Value(k)) >= 3
          /\ \E t \in FolderNodes(k) : Len(items[t].children) >= 2

\* C2 (as stated): the example dictionary gives 3 top-level nodes with 1, 2
\* and 4 children, and the first child of /folderThree's node has Version '05'.
C2_ExampleOneTwoFour ==
    (data = _data /\ Built) =>
       /\ Len(topLevelItems) = 3
       /\ [n \in 1..3 |-> Len(items[topLevelItems[n]].children)] = <<1, 2, 4>>
       /\ items[topLevelItems[3]].children # << >>
       /\ items[items[topLevelItems[3]].children[1]]._version_widget.text = "05"

\* C2 (amended): the example dictionary gives 3 top-level nodes with 0, 1 and
\* 3 children; the top-level node of /folderThree has Version '05' and its
\* first child has Version '03'.
C2_ExampleZeroOneThree ==
    (data = _data /\ Built) =>
       /\ Len(topLevelItems) = 3
       /\ [n \in 1..3 |-> Len(items[topLevelItems[n]].children)] = <<0, 1, 3>>
       /\ items[topLevelItems[3]]._version_widget.text = "05"
       /\ items[items[topLevelItems[3]].children[1]]._version_widget.text = "03"

C2_Witness == data = _data /\ phase = "idle" /\ Len(items) = 7

\* C3: the sequence, shot, version and location properties of a node built
\* from a record with all four fields give back the record's values, each in
\* its own field, and each label is bound to its own column.
C3_RoundTrip ==
    \A i \in 1..Len(items) :
       (Completed(i) /\ Fields \subseteq DOMAIN SourceRecord(i)) =>
          /\ text(sequence(items[i])) = SourceRecord(i).Sequence
          /\ text(shot(items[i])) = SourceRecord(i).Shot
          /\ text(version(items[i])) = SourceRecord(i).Version
          /\ text(location(items[i])) = SourceRecord(i).Location
          /\ \A c \in 0..3 :
                items[i][items[i].itemWidget[c]].text
                   = SourceRecord(i)[_HEADERS[c + 1]]

C3_Witness ==
    /\ Built
    /\ \E i \in 1..Len(items) :
          /\ items[i].parent # Tree
          /\ ReadBack(items[i]) = SourceRecord(i)

\* C4: a click with nothing selected prints the one line asking for a
\* selection and no field line, and changes neither the tree nor the selection.
C4_EmptySelection ==
    [][(Invoked /\ selectedItems = << >>) =>
          /\ stdout' = << "Please select a row" >>
          /\ selectedItems' = selectedItems
          /\ TreeUnchanged]_vars

C4_Witness ==
    /\ phase = "reporting"
    /\ selectedItems = << >>
    /\ stdout # << >>
    /\ items # << >>

\* C5: a click with n >= 1 selected nodes prints 4 * n lines: for the m-th
\* selected node the lines Sequence, Shot, Version, Location in this order,
\* each the field's name followed by the node's value; the line asking for a
\* selection is not printed.
C5_FourLinesPerNode ==
    [][(Invoked /\ selectedItems # << >>) =>
          /\ Len(stdout') = 4 * Len(selectedItems)
          /\ \A m \in 1..Len(selectedItems) :
                LET item == items[selectedItems[m]]
                    at   == 4 * (m - 1)
                IN  /\ stdout'[at + 1] = ">> Sequence: " \o item._sequence_widget.text
                    /\ stdout'[at + 2] = ">> Shot: " \o item._shot_widget.text
                    /\ stdout'[at + 3] = ">> Version: " \o item._version_widget.text
                    /\ stdout'[at + 4] = ">> Location: " \o item._location_widget.text
          /\ \A n \in 1..Len(stdout') : stdout'[n] # "Please select a row"]_vars

C5_Witness ==
    /\ phase = "reporting"
    /\ Len(selectedItems) >= 2
    /\ Len(stdout) = 4 * Len(selectedItems)

\* C6 (as stated): a folder whose list of groups is empty has a node in the
\* built tree, and that node has no children.
C6_EmptyFolderHasNode ==
    Built =>
      \A k \in 1..Len(data) :
         Value(k) = << >> =>
            \E i \in ItemsOf(k) : items[i].children = << >>

\* C6 (amended): a folder whose list of groups is empty produces no node at
\* all, neither at the top level nor below, and building it raises no error.
C6_EmptyFolderHasNoNode ==
    /\ \A k \in 1..Len(data) : Value(k) = << >> => ItemsOf(k) = {}
    /\ phase = "error" => Value(key_index) # << >>

C6_Witness ==
    /\ Built
    /\ items # << >>
    /\ \E k \in 1..Len(data) : Value(k) = << >>

\* C7: building a node from a record that lacks one of the four fields raises
\* KeyError for that field in the constructor and ends the build; no node
\* whose constructor returned was built from such a record.
C7_MissingFieldRaises ==
    /\ \A i \in 1..Len(items) :
          ~(Fields \subseteq DOMAIN SourceRecord(i)) =>
             /\ ~Completed(i)
             /\ error = KeyError(FirstMissing(SourceRecord(i)))
             /\ \E c \in 1..Len(_HEADERS) :
                   /\ _HEADERS[c] = FirstMissing(SourceRecord(i))
                   /\ items[i].itemWidget[c - 1] = ""
    /\ phase = "error" =>
          /\ items # << >>
          /\ error.type = "KeyError"
          /\ error.key \in Fields \ DOMAIN SourceRecord(Len(items))
    /\ error # NoError => phase = "error"

C7_Witness ==
    /\ phase = "error"
    /\ Len(items) >= 2
    /\ error.key = "Version"

\* C8 (as stated): all the nodes built for one folder are attached under the
\* same parent, as siblings at one level.
C8_AllSiblings ==
    \A i, j \in 1..Len(items) :
       origin[i][1] = origin[j][1] => items[i].parent = items[j].parent

\* C8 (amended): the first node built for a folder is attached to the tree
\* itself, at the top level, and every later node built for that folder is
\* attached under that first node; no node is deeper than two levels.
C8_FirstIsParentOfRest ==
    \A i \in 1..Len(items) :
       LET first == CHOOSE f \in ItemsOf(origin[i][1]) :
                       \A g \in ItemsOf(origin[i][1]) : f <= g
       IN  /\ i = first => items[i].parent = Tree
           /\ i # first => items[i].parent = first
           /\ items[i].parent # Tree => items[items[i].parent].parent = Tree

C8_Witness ==
    \E i \in 1..Len(items) :
       /\ Len(items[i].children) >= 2
       /\ \A n \in 1..Len(items[i].children) :
             items[items[i].children[n]].parent = i

\* C9: once the tree is built no step changes its nodes, their order or their
\* fields; a click leaves the selection as it is, prints only while the
\* handler runs, and the handler, once started, returns to the idle state.
C9_TreeAndSelectionFrame ==
    /\ [][/\ Built => TreeUnchanged /\ Built'
          /\ Invoked => selectedItems' = selectedItems
          /\ phase = "reporting" =>
                phase' = "idle" /\ selectedItems' = selectedItems
          /\ (phase = "idle" /\ stdout' # stdout) => Invoked]_vars
    /\ (phase = "reporting") ~> (phase = "idle")

C9_Witness ==
    /\ phase = "reporting"
    /\ Len(selectedItems) = 1
    /\ Len(items) >= 2

\* C10: for a folder with n >= 1 groups the builder creates n nodes, each from
\* the first record of one group; the node of the last group is top-level and
\* the nodes of the other groups are its children in reverse source order;
\* top-level nodes follow the dictionary's order and the tree has as many
\* nodes as the dictionary has groups.
C10_OneNodePerGroup ==
    Built =>
      /\ Len(items) = TotalGroups(Len(data))
      /\ \A k \in 1..Len(data) : \A j \in 1..Len(Value(k)) :
            \E i \in 1..Len(items) : origin[i] = <<k, j>>
      /\ \A i \in 1..Len(items) :
            ReadBack(items[i]) = Value(origin[i][1])[origin[i][2]][1]
      /\ Len(topLevelItems) =
            Cardinality({k \in 1..Len(data) : Value(k) # << >>})
      /\ \A n \in 1..Len(topLevelItems) :
            LET t == topLevelItems[n]
                k == origin[t][1]
            IN  /\ items[t].parent = Tree
                /\ origin[t][2] = Len(Value(k))
                /\ n > 1 => origin[topLevelItems[n - 1]][1] < k
                /\ Len(items[t].children) = Len(Value(k)) - 1
                /\ \A m \in 1..Len(items[t].children) :
                      /\ origin[items[t].children[m]] = <<k, Len(Value(k)) - m>>
                      /\ items[items[t].children[m]].children = << >>

C10_Witness ==
    /\ Built
    /\ Len(topLevelItems) >= 2
    /\ \E n \in 1..Len(topLevelItems) :
          Len(items[topLevelItems[n]].children) >= 2

====
